---------------------------- MODULE Spec2Model ----------------------------
(***************************************************************************)
(* MiniLang: lexer, recursive-descent parser, tree-walking interpreter     *)
(* with a chain of scopes, and the interactive driver (repl).              *)
(*                                                                         *)
(* Source text and string values are TLA+ strings; a character is a string *)
(* of length one.  A runtime value is a record with a kind tag.  A float   *)
(* is an exact fraction n/d (no rounding, no signed zero, no inf or nan);  *)
(* the programs of the model stay within values a float holds exactly.     *)
(***************************************************************************)
EXTENDS Integers, Sequences, FiniteSets, TLC

VARIABLES
    scopes,     \* the Environment objects: scopes[i] = [values, parent]
    env,        \* Interpreter.env, an index into scopes
    kont,       \* the active calls of interpret/_execute/_execute_block, innermost first
    status,     \* the interpret call: "idle" | "running" | "returned" | "raised"
    err,        \* the exception raised by the last run, NoErr when none was
    out,        \* standard output, one string
    buffer,     \* repl: the pending input buffer
    depth,      \* repl: the brace balance counter
    session,    \* repl: "reading" (at input()) | "running" | "ended" | "crashed"
    ninputs,    \* repl: the input() calls made so far
    source,     \* run: the text handed to the pipeline by the last input, "" when none was
    tokens,     \* run: Lexer(source).lex()
    program     \* run: Parser(tokens).parse()

interpVars == <<scopes, env, kont, status>>
replVars == <<buffer, depth, session, ninputs, source, tokens, program>>
vars == <<scopes, env, kont, status, err, out,
          buffer, depth, session, ninputs, source, tokens, program>>

-----------------------------------------------------------------------------
(* Bounds of the model.                                                    *)

\* the input() calls of one session
MaxInputs == 2
\* the digits print shows after the point of a float
MaxFracDigits == 4

-----------------------------------------------------------------------------
(* Host (Python) values and the operations the interpreter applies.        *)

IntV(n) == [k |-> "int", n |-> n, d |-> 1, s |-> "", b |-> FALSE]
StrV(s) == [k |-> "str", n |-> 0, d |-> 1, s |-> s, b |-> FALSE]
BoolV(b) == [k |-> "bool", n |-> 0, d |-> 1, s |-> "", b |-> b]
NilV == [k |-> "nil", n |-> 0, d |-> 1, s |-> "", b |-> FALSE]

Abs(n) == IF n < 0 THEN -n ELSE n

RECURSIVE Gcd(_, _)
Gcd(a, b) == IF b = 0 THEN a ELSE Gcd(b, a % b)

\* a float, as the fraction n/d in lowest terms with d > 0
FloatV(n, d) ==
    LET g == Gcd(Abs(n), Abs(d))
        sgn == IF d < 0 THEN -1 ELSE 1
    IN [k |-> "float", n |-> sgn * (n \div g), d |-> sgn * (d \div g),
        s |-> "", b |-> FALSE]

\* isinstance(value, (int, float)): bool is a subclass of int
IsNumber(v) == v.k \in {"int", "float", "bool"}

\* the numerator and denominator a number stands for (True is 1, False is 0)
NumOf(v) == IF v.k = "bool" THEN (IF v.b THEN 1 ELSE 0) ELSE v.n
DenOf(v) == IF v.k = "float" THEN v.d ELSE 1

\* type(v).__name__
TypeName(v) == IF v.k = "nil" THEN "NoneType" ELSE v.k

DigitChars == <<"0", "1", "2", "3", "4", "5", "6", "7", "8", "9">>

RECURSIVE NatStr(_)
NatStr(n) == IF n < 10 THEN DigitChars[n + 1]
             ELSE NatStr(n \div 10) \o DigitChars[(n % 10) + 1]

IntStr(n) == IF n < 0 THEN "-" \o NatStr(-n) ELSE NatStr(n)

\* the digits after the point of r/d (0 <= r < d), at most `fuel` of them
RECURSIVE FracStr(_, _, _)
FracStr(r, d, fuel) ==
    IF r = 0 \/ fuel = 0 THEN ""
    ELSE DigitChars[((r * 10) \div d) + 1] \o FracStr((r * 10) % d, d, fuel - 1)

FloatStr(n, d) ==
    LET a == Abs(n)
        frac == FracStr(a % d, d, MaxFracDigits)
    IN (IF n < 0 THEN "-" ELSE "") \o NatStr(a \div d) \o "."
       \o (IF frac = "" THEN "0" ELSE frac)

\* str(value), which print(value) writes
PyStr(v) ==
    CASE v.k = "int" -> IntStr(v.n)
      [] v.k = "float" -> FloatStr(v.n, v.d)
      [] v.k = "str" -> v.s
      [] v.k = "bool" -> IF v.b THEN "True" ELSE "False"
      [] v.k = "nil" -> "None"

\* bool(value)
PyBool(v) ==
    CASE v.k = "int" -> v.n # 0
      [] v.k = "float" -> v.n # 0
      [] v.k = "str" -> v.s # ""
      [] v.k = "bool" -> v.b
      [] v.k = "nil" -> FALSE

NoErr == [kind |-> "none", msg |-> ""]
Exc(kind, msg) == [kind |-> kind, msg |-> msg]
Ok(v) == [val |-> v, err |-> NoErr]
Fail(kind, msg) == [val |-> NilV, err |-> Exc(kind, msg)]

\* a number from numerator and denominator: an int when both operands were
\* int or bool, a float otherwise
Arith(l, r, n, d) ==
    IF l.k = "float" \/ r.k = "float" THEN FloatV(n, d) ELSE IntV(n \div d)

\* left + right
PyAdd(l, r) ==
    IF IsNumber(l) /\ IsNumber(r)
    THEN Ok(Arith(l, r, NumOf(l) * DenOf(r) + NumOf(r) * DenOf(l), DenOf(l) * DenOf(r)))
    ELSE IF l.k = "str" /\ r.k = "str"
    THEN Ok(StrV(l.s \o r.s))
    ELSE IF l.k = "str"
    THEN Fail("TypeError", "can only concatenate str (not \"" \o TypeName(r) \o "\") to str")
    ELSE Fail("TypeError", "unsupported operand type(s) for +: '" \o TypeName(l)
                           \o "' and '" \o TypeName(r) \o "'")

\* left - right, on operands _check_numbers let through
PySub(l, r) ==
    Ok(Arith(l, r, NumOf(l) * DenOf(r) - NumOf(r) * DenOf(l), DenOf(l) * DenOf(r)))

\* left * right
PyMul(l, r) == Ok(Arith(l, r, NumOf(l) * NumOf(r), DenOf(l) * DenOf(r)))

\* left / right: true division, a float; a zero divisor raises ZeroDivisionError
PyDiv(l, r) ==
    IF NumOf(r) = 0
    THEN Fail("ZeroDivisionError",
              IF l.k = "float" \/ r.k = "float" THEN "float division by zero"
              ELSE "division by zero")
    ELSE Ok(FloatV(NumOf(l) * DenOf(r), DenOf(l) * NumOf(r)))

\* left == right: numbers (bool included) by value, str with str, None with None
PyEq(l, r) ==
    IF IsNumber(l) /\ IsNumber(r) THEN NumOf(l) * DenOf(r) = NumOf(r) * DenOf(l)
    ELSE IF l.k = "str" /\ r.k = "str" THEN l.s = r.s
    ELSE l.k = "nil" /\ r.k = "nil"

\* left < right on numbers
PyLt(l, r) == NumOf(l) * DenOf(r) < NumOf(r) * DenOf(l)

\* -right on a number
PyNeg(v) == IF v.k = "float" THEN FloatV(-v.n, v.d) ELSE IntV(-NumOf(v))

-----------------------------------------------------------------------------
(* ml_ast.py: the keyword table and tokens.                                *)

\* KEYWORDS: the spelling of each keyword and its token type
KEYWORDS ==
    [w \in {"let", "if", "else", "while", "print", "true", "false", "null"} |->
        CASE w = "let" -> "LET" [] w = "if" -> "IF" [] w = "else" -> "ELSE"
          [] w = "while" -> "WHILE" [] w = "print" -> "PRINT"
          [] w = "true" -> "TRUE" [] w = "false" -> "FALSE" [] w = "null" -> "NULL"]

Token(typ, lexeme, literal, line, col) ==
    [typ |-> typ, lexeme |-> lexeme, literal |-> literal, line |-> line, col |-> col]

\* the "[line L:C] " prefix of a diagnostic
Loc(line, col) == "[line " \o IntStr(line) \o ":" \o IntStr(col) \o "] "

-----------------------------------------------------------------------------
(* lexer.py                                                                *)

\* the characters str.isdigit and str.isalpha accept (the ASCII ones)
Digits == {"0", "1", "2", "3", "4", "5", "6", "7", "8", "9"}
Letters == {"a", "b", "c", "d", "e", "f", "g", "h", "i", "j", "k", "l", "m",
            "n", "o", "p", "q", "r", "s", "t", "u", "v", "w", "x", "y", "z",
            "A", "B", "C", "D", "E", "F", "G", "H", "I", "J", "K", "L", "M",
            "N", "O", "P", "Q", "R", "S", "T", "U", "V", "W", "X", "Y", "Z"}

\* "\0", which _peek gives at the end of the source: no character of a source
NUL == "NUL"

\* source[i] and source[a:b], with Python's indices from 0
CharAt(src, i) == SubSeq(src, i + 1, i + 1)
Slice(src, a, b) == SubSeq(src, a + 1, b)

Lexer(src) ==
    [source |-> src, tokens |-> <<>>, start |-> 0, current |-> 0,
     line |-> 1, col |-> 1, start_col |-> 1, err |-> NoErr]

Lexer_is_at_end(L) == L.current >= Len(L.source)

\* the lexer after _advance; the character it returns is CharAt(L.source, L.current)
Lexer_advance(L) ==
    LET ch == CharAt(L.source, L.current)
    IN [L EXCEPT !.current = @ + 1,
                 !.line = IF ch = "\n" THEN @ + 1 ELSE @,
                 !.col = IF ch = "\n" THEN 1 ELSE @ + 1]

Lexer_peek(L) == IF Lexer_is_at_end(L) THEN NUL ELSE CharAt(L.source, L.current)

Lexer_peek_next(L) ==
    IF L.current + 1 >= Len(L.source) THEN NUL ELSE CharAt(L.source, L.current + 1)

\* whether _match(expected) consumes, and the lexer after it
Lexer_match_ok(L, expected) ==
    ~Lexer_is_at_end(L) /\ CharAt(L.source, L.current) = expected

Lexer_match(L, expected) ==
    IF Lexer_match_ok(L, expected)
    THEN [L EXCEPT !.current = @ + 1, !.col = @ + 1]
    ELSE L

Lexer_add(L, typ, literal) ==
    [L EXCEPT !.tokens = Append(@, Token(typ, Slice(L.source, L.start, L.current),
                                         literal, L.line, L.start_col))]

\* int(text) for a run of digits
RECURSIVE DecVal(_)
DecVal(text) ==
    IF text = "" THEN 0
    ELSE 10 * DecVal(SubSeq(text, 1, Len(text) - 1))
         + (CHOOSE v \in 0..9 : DigitChars[v + 1] = SubSeq(text, Len(text), Len(text)))

RECURSIVE Pow10(_)
Pow10(n) == IF n = 0 THEN 1 ELSE 10 * Pow10(n - 1)

\* the index (from 1) of the first "." of text, 0 when there is none
RECURSIVE DotAt(_, _)
DotAt(text, i) ==
    IF i > Len(text) THEN 0
    ELSE IF SubSeq(text, i, i) = "." THEN i ELSE DotAt(text, i + 1)

\* float(text) if "." in text else int(text)
NumberLiteral(text) ==
    LET dot == DotAt(text, 1)
    IN IF dot = 0 THEN IntV(DecVal(text))
       ELSE FloatV(DecVal(SubSeq(text, 1, dot - 1)) * Pow10(Len(text) - dot)
                   + DecVal(SubSeq(text, dot + 1, Len(text))),
                   Pow10(Len(text) - dot))

\* while self._peek() != stop and not self._is_at_end(): self._advance()
RECURSIVE Lexer_advance_until(_, _)
Lexer_advance_until(L, stop) ==
    IF Lexer_peek(L) # stop /\ ~Lexer_is_at_end(L)
    THEN Lexer_advance_until(Lexer_advance(L), stop)
    ELSE L

\* while self._peek() is one of `chars`: self._advance()
RECURSIVE Lexer_advance_while(_, _)
Lexer_advance_while(L, chars) ==
    IF Lexer_peek(L) \in chars
    THEN Lexer_advance_while(Lexer_advance(L), chars)
    ELSE L

Lexer_string(L) ==
    LET L1 == Lexer_advance_until(L, "\"")
    IN IF Lexer_is_at_end(L1)
       THEN [L1 EXCEPT !.err = Exc("LexError",
                                   Loc(L1.line, L1.start_col) \o "Unterminated string")]
       ELSE LET L2 == Lexer_advance(L1)
            IN Lexer_add(L2, "STRING", StrV(Slice(L2.source, L2.start + 1, L2.current - 1)))

Lexer_number(L) ==
    LET L1 == Lexer_advance_while(L, Digits)
        L2 == IF Lexer_peek(L1) = "." /\ Lexer_peek_next(L1) \in Digits
              THEN Lexer_advance_while(Lexer_advance(L1), Digits)
              ELSE L1
    IN Lexer_add(L2, "NUMBER", NumberLiteral(Slice(L2.source, L2.start, L2.current)))

Lexer_ident(L) ==
    LET L1 == Lexer_advance_while(L, Letters \cup Digits \cup {"_"})
        text == Slice(L1.source, L1.start, L1.current)
        typ == IF text \in DOMAIN KEYWORDS THEN KEYWORDS[text] ELSE "IDENT"
        lit == IF typ = "TRUE" THEN BoolV(TRUE)
               ELSE IF typ = "FALSE" THEN BoolV(FALSE) ELSE NilV
    IN Lexer_add(L1, typ, lit)

\* the token type of a one-character token
SingleChar ==
    [c \in {"(", ")", "{", "}", ";", "+", "-", "*", "/"} |->
        CASE c = "(" -> "LEFT_PAREN" [] c = ")" -> "RIGHT_PAREN"
          [] c = "{" -> "LEFT_BRACE" [] c = "}" -> "RIGHT_BRACE"
          [] c = ";" -> "SEMICOLON" [] c = "+" -> "PLUS" [] c = "-" -> "MINUS"
          [] c = "*" -> "STAR" [] c = "/" -> "SLASH"]

\* the token types of "!", "=", "<", ">" followed by "=" and alone
OneTwoChar ==
    [c \in {"!", "=", "<", ">"} |->
        CASE c = "!" -> <<"BANG_EQUAL", "BANG">>
          [] c = "=" -> <<"EQUAL_EQUAL", "EQUAL">>
          [] c = "<" -> <<"LESS_EQUAL", "LESS">>
          [] c = ">" -> <<"GREATER_EQUAL", "GREATER">>]

Lexer_scan_token(L0) ==
    LET ch == CharAt(L0.source, L0.current)
        L == Lexer_advance(L0)
    IN IF ch \in {" ", "\r", "\t", "\n"} THEN L
       ELSE IF ch = "/" /\ Lexer_peek(L) = "/" THEN Lexer_advance_until(L, "\n")
       ELSE IF ch \in DOMAIN SingleChar THEN Lexer_add(L, SingleChar[ch], NilV)
       ELSE IF ch \in DOMAIN OneTwoChar
       THEN Lexer_add(Lexer_match(L, "="),
                      IF Lexer_match_ok(L, "=") THEN OneTwoChar[ch][1]
                      ELSE OneTwoChar[ch][2],
                      NilV)
       ELSE IF ch = "\"" THEN Lexer_string(L)
       ELSE IF ch \in Digits THEN Lexer_number(L)
       ELSE IF ch \in Letters \/ ch = "_" THEN Lexer_ident(L)
       ELSE [L EXCEPT !.err = Exc("LexError", Loc(L.line, L.start_col)
                                   \o "Unexpected character '" \o ch \o "'")]

RECURSIVE Lexer_loop(_)
Lexer_loop(L) ==
    IF L.err # NoErr THEN L
    ELSE IF Lexer_is_at_end(L)
    THEN [L EXCEPT !.tokens = Append(@, Token("EOF", "", NilV, L.line, L.col))]
    ELSE Lexer_loop(Lexer_scan_token([L EXCEPT !.start = L.current, !.start_col = L.col]))

\* Lexer(source).lex(): the tokens, or the LexError raised
Lexer_lex(src) ==
    LET L == Lexer_loop(Lexer(src))
    IN [tokens |-> L.tokens, err |-> L.err]

-----------------------------------------------------------------------------
(* ml_ast.py: the expression and statement nodes.                          *)

Literal(value) == [t |-> "Literal", value |-> value]
Variable(name) == [t |-> "Variable", name |-> name]
Assign(name, value) == [t |-> "Assign", name |-> name, value |-> value]
Grouping(expr) == [t |-> "Grouping", expr |-> expr]
Unary(op, right) == [t |-> "Unary", op |-> op, right |-> right]
Binary(left, op, right) == [t |-> "Binary", left |-> left, op |-> op, right |-> right]

ExprStmt(expr) == [t |-> "ExprStmt", expr |-> expr]
PrintStmt(expr) == [t |-> "PrintStmt", expr |-> expr]
LetStmt(name, init) == [t |-> "LetStmt", name |-> name, initializer |-> init]
Block(statements) == [t |-> "Block", statements |-> statements]
IfStmt(cond, then_branch, else_branch) ==
    [t |-> "IfStmt", condition |-> cond, then_branch |-> then_branch,
     else_branch |-> else_branch]
WhileStmt(cond, body) == [t |-> "WhileStmt", condition |-> cond, body |-> body]

\* else_branch = None
NoStmt == [t |-> "None"]

-----------------------------------------------------------------------------
(* parser.py.  A parsing method takes the token list and Parser.current    *)
(* and gives the node built, the new Parser.current, and the ParseError    *)
(* raised, if one was.                                                     *)

Parser_peek(toks, cur) == toks[cur + 1]
Parser_previous(toks, cur) == toks[cur]
Parser_is_at_end(toks, cur) == Parser_peek(toks, cur).typ = "EOF"
Parser_check(toks, cur, typ) ==
    IF Parser_is_at_end(toks, cur) THEN FALSE ELSE Parser_peek(toks, cur).typ = typ

\* Parser.current after _advance
Parser_advance(toks, cur) == IF ~Parser_is_at_end(toks, cur) THEN cur + 1 ELSE cur

\* whether _match(*types) consumes a token
Parser_match(toks, cur, types) == \E typ \in types : Parser_check(toks, cur, typ)

Parsed(node, cur) == [node |-> node, cur |-> cur, err |-> NoErr]
ParseError(tok, cur, msg) ==
    [node |-> NoStmt, cur |-> cur, err |-> Exc("ParseError", Loc(tok.line, tok.col) \o msg)]

\* _consume: the token is Parser_previous at the new current
Parser_consume(toks, cur, typ, msg) ==
    IF Parser_check(toks, cur, typ)
    THEN Parsed(Parser_peek(toks, cur), Parser_advance(toks, cur))
    ELSE ParseError(Parser_peek(toks, cur), cur, msg)

(* A method that goes on after a call is split at the call: the operator   *)
(* named <method>_<what follows> takes what the call gave, and gives it    *)
(* back unchanged when the call raised.                                    *)

RECURSIVE Parser_assignment(_, _)
RECURSIVE Parser_equality_loop(_, _, _)
RECURSIVE Parser_comparison_loop(_, _, _)
RECURSIVE Parser_term_loop(_, _, _)
RECURSIVE Parser_factor_loop(_, _, _)
RECURSIVE Parser_unary(_, _)

Parser_expression(toks, cur) == Parser_assignment(toks, cur)

Parser_primary_grouping(expr, c) ==
    IF c.err # NoErr THEN c ELSE Parsed(Grouping(expr.node), c.cur)

Parser_primary_paren(toks, expr) ==
    IF expr.err # NoErr THEN expr
    ELSE Parser_primary_grouping(
             expr, Parser_consume(toks, expr.cur, "RIGHT_PAREN", "Expected ')'."))

Parser_primary(toks, cur) ==
    IF Parser_match(toks, cur, {"NUMBER", "STRING"})
    THEN Parsed(Literal(Parser_peek(toks, cur).literal), cur + 1)
    ELSE IF Parser_match(toks, cur, {"TRUE"}) THEN Parsed(Literal(BoolV(TRUE)), cur + 1)
    ELSE IF Parser_match(toks, cur, {"FALSE"}) THEN Parsed(Literal(BoolV(FALSE)), cur + 1)
    ELSE IF Parser_match(toks, cur, {"NULL"}) THEN Parsed(Literal(NilV), cur + 1)
    ELSE IF Parser_match(toks, cur, {"IDENT"})
    THEN Parsed(Variable(Parser_peek(toks, cur)), cur + 1)
    ELSE IF Parser_match(toks, cur, {"LEFT_PAREN"})
    THEN Parser_primary_paren(toks, Parser_expression(toks, cur + 1))
    ELSE ParseError(Parser_peek(toks, cur), cur, "Expected expression.")

Parser_unary_node(op, right) ==
    IF right.err # NoErr THEN right ELSE Parsed(Unary(op, right.node), right.cur)

Parser_unary(toks, cur) ==
    IF Parser_match(toks, cur, {"BANG", "MINUS"})
    THEN Parser_unary_node(Parser_peek(toks, cur), Parser_unary(toks, cur + 1))
    ELSE Parser_primary(toks, cur)

Parser_factor_right(toks, expr, op, right) ==
    IF right.err # NoErr THEN right
    ELSE Parser_factor_loop(toks, right.cur, Binary(expr, op, right.node))

Parser_factor_loop(toks, cur, expr) ==
    IF Parser_match(toks, cur, {"STAR", "SLASH"})
    THEN Parser_factor_right(toks, expr, Parser_peek(toks, cur), Parser_unary(toks, cur + 1))
    ELSE Parsed(expr, cur)

Parser_factor_left(toks, expr) ==
    IF expr.err # NoErr THEN expr ELSE Parser_factor_loop(toks, expr.cur, expr.node)

Parser_factor(toks, cur) == Parser_factor_left(toks, Parser_unary(toks, cur))

Parser_term_right(toks, expr, op, right) ==
    IF right.err # NoErr THEN right
    ELSE Parser_term_loop(toks, right.cur, Binary(expr, op, right.node))

Parser_term_loop(toks, cur, expr) ==
    IF Parser_match(toks, cur, {"PLUS", "MINUS"})
    THEN Parser_term_right(toks, expr, Parser_peek(toks, cur), Parser_factor(toks, cur + 1))
    ELSE Parsed(expr, cur)

Parser_term_left(toks, expr) ==
    IF expr.err # NoErr THEN expr ELSE Parser_term_loop(toks, expr.cur, expr.node)

Parser_term(toks, cur) == Parser_term_left(toks, Parser_factor(toks, cur))

Parser_comparison_right(toks, expr, op, right) ==
    IF right.err # NoErr THEN right
    ELSE Parser_comparison_loop(toks, right.cur, Binary(expr, op, right.node))

Parser_comparison_loop(toks, cur, expr) ==
    IF Parser_match(toks, cur, {"LESS", "LESS_EQUAL", "GREATER", "GREATER_EQUAL"})
    THEN Parser_comparison_right(toks, expr, Parser_peek(toks, cur),
                                 Parser_term(toks, cur + 1))
    ELSE Parsed(expr, cur)

Parser_comparison_left(toks, expr) ==
    IF expr.err # NoErr THEN expr ELSE Parser_comparison_loop(toks, expr.cur, expr.node)

Parser_comparison(toks, cur) == Parser_comparison_left(toks, Parser_term(toks, cur))

Parser_equality_right(toks, expr, op, right) ==
    IF right.err # NoErr THEN right
    ELSE Parser_equality_loop(toks, right.cur, Binary(expr, op, right.node))

Parser_equality_loop(toks, cur, expr) ==
    IF Parser_match(toks, cur, {"EQUAL_EQUAL", "BANG_EQUAL"})
    THEN Parser_equality_right(toks, expr, Parser_peek(toks, cur),
                               Parser_comparison(toks, cur + 1))
    ELSE Parsed(expr, cur)

Parser_equality_left(toks, expr) ==
    IF expr.err # NoErr THEN expr ELSE Parser_equality_loop(toks, expr.cur, expr.node)

Parser_equality(toks, cur) == Parser_equality_left(toks, Parser_comparison(toks, cur))

\* _assignment once the value has been parsed: only now is the target looked at
Parser_assignment_value(expr, equals, value) ==
    IF value.err # NoErr THEN value
    ELSE IF expr.node.t = "Variable"
    THEN Parsed(Assign(expr.node.name, value.node), value.cur)
    ELSE ParseError(equals, value.cur, "Invalid assignment target.")

\* _assignment once the left-hand side has been parsed
Parser_assignment_target(toks, expr) ==
    IF expr.err # NoErr THEN expr
    ELSE IF Parser_match(toks, expr.cur, {"EQUAL"})
    THEN Parser_assignment_value(expr, Parser_peek(toks, expr.cur),
                                 Parser_assignment(toks, expr.cur + 1))
    ELSE expr

Parser_assignment(toks, cur) == Parser_assignment_target(toks, Parser_equality(toks, cur))

RECURSIVE Parser_statement(_, _)
RECURSIVE Parser_block_loop(_, _, _)

Parser_stmt_semicolon(kind, expr, c) ==
    IF c.err # NoErr THEN c
    ELSE Parsed(IF kind = "PrintStmt" THEN PrintStmt(expr.node) ELSE ExprStmt(expr.node),
                c.cur)

Parser_stmt_expr(toks, msg, kind, expr) ==
    IF expr.err # NoErr THEN expr
    ELSE Parser_stmt_semicolon(kind, expr, Parser_consume(toks, expr.cur, "SEMICOLON", msg))

\* expression then ";": a PrintStmt or an ExprStmt of the expression
Parser_expr_then_semicolon(toks, cur, msg, kind) ==
    Parser_stmt_expr(toks, msg, kind, Parser_expression(toks, cur))

Parser_let_semicolon(name, init, c) ==
    IF c.err # NoErr THEN c ELSE Parsed(LetStmt(name.node, init.node), c.cur)

Parser_let_init(toks, name, init) ==
    IF init.err # NoErr THEN init
    ELSE Parser_let_semicolon(name, init,
                              Parser_consume(toks, init.cur, "SEMICOLON", "Expected ';'."))

Parser_let_equal(toks, name, eq) ==
    IF eq.err # NoErr THEN eq
    ELSE Parser_let_init(toks, name, Parser_expression(toks, eq.cur))

Parser_let_name(toks, name) ==
    IF name.err # NoErr THEN name
    ELSE Parser_let_equal(toks, name,
                          Parser_consume(toks, name.cur, "EQUAL", "Expected '=' after name."))

Parser_let_stmt(toks, cur) ==
    Parser_let_name(toks, Parser_consume(toks, cur, "IDENT", "Expected variable name."))

Parser_condition_close(cond, rp) ==
    IF rp.err # NoErr THEN rp ELSE Parsed(cond.node, rp.cur)

Parser_condition_expr(toks, cond) ==
    IF cond.err # NoErr THEN cond
    ELSE Parser_condition_close(
             cond, Parser_consume(toks, cond.cur, "RIGHT_PAREN", "Expected ')'."))

Parser_condition_open(toks, lp) ==
    IF lp.err # NoErr THEN lp
    ELSE Parser_condition_expr(toks, Parser_expression(toks, lp.cur))

\* "(" expression ")" of if and while
Parser_condition(toks, cur, msg) ==
    Parser_condition_open(toks, Parser_consume(toks, cur, "LEFT_PAREN", msg))

Parser_if_else(cond, then_branch, else_branch) ==
    IF else_branch.err # NoErr THEN else_branch
    ELSE Parsed(IfStmt(cond.node, then_branch.node, else_branch.node), else_branch.cur)

Parser_if_then(toks, cond, then_branch) ==
    IF then_branch.err # NoErr THEN then_branch
    ELSE IF Parser_match(toks, then_branch.cur, {"ELSE"})
    THEN Parser_if_else(cond, then_branch, Parser_statement(toks, then_branch.cur + 1))
    ELSE Parsed(IfStmt(cond.node, then_branch.node, NoStmt), then_branch.cur)

Parser_if_cond(toks, cond) ==
    IF cond.err # NoErr THEN cond
    ELSE Parser_if_then(toks, cond, Parser_statement(toks, cond.cur))

Parser_if_stmt(toks, cur) ==
    Parser_if_cond(toks, Parser_condition(toks, cur, "Expected '(' after if."))

Parser_while_body(cond, body) ==
    IF body.err # NoErr THEN body ELSE Parsed(WhileStmt(cond.node, body.node), body.cur)

Parser_while_cond(toks, cond) ==
    IF cond.err # NoErr THEN cond
    ELSE Parser_while_body(cond, Parser_statement(toks, cond.cur))

Parser_while_stmt(toks, cur) ==
    Parser_while_cond(toks, Parser_condition(toks, cur, "Expected '(' after while."))

Parser_block_close(statements, c) ==
    IF c.err # NoErr THEN c ELSE Parsed(statements, c.cur)

Parser_block_statement(toks, statements, st) ==
    IF st.err # NoErr THEN st
    ELSE Parser_block_loop(toks, st.cur, Append(statements, st.node))

\* the loop of _block: node is the list of statements
Parser_block_loop(toks, cur, statements) ==
    IF ~Parser_check(toks, cur, "RIGHT_BRACE") /\ ~Parser_is_at_end(toks, cur)
    THEN Parser_block_statement(toks, statements, Parser_statement(toks, cur))
    ELSE Parser_block_close(statements,
                            Parser_consume(toks, cur, "RIGHT_BRACE", "Expected '}'."))

Parser_block(toks, cur) == Parser_block_loop(toks, cur, <<>>)

Parser_statement_block(b) ==
    IF b.err # NoErr THEN b ELSE Parsed(Block(b.node), b.cur)

Parser_statement(toks, cur) ==
    IF Parser_match(toks, cur, {"LET"}) THEN Parser_let_stmt(toks, cur + 1)
    ELSE IF Parser_match(toks, cur, {"PRINT"})
    THEN Parser_expr_then_semicolon(toks, cur + 1, "Expected ';' after value.", "PrintStmt")
    ELSE IF Parser_match(toks, cur, {"IF"}) THEN Parser_if_stmt(toks, cur + 1)
    ELSE IF Parser_match(toks, cur, {"WHILE"}) THEN Parser_while_stmt(toks, cur + 1)
    ELSE IF Parser_match(toks, cur, {"LEFT_BRACE"})
    THEN Parser_statement_block(Parser_block(toks, cur + 1))
    ELSE Parser_expr_then_semicolon(toks, cur, "Expected ';' after expression.", "ExprStmt")

RECURSIVE Parser_parse_loop(_, _, _)

Parser_parse_statement(toks, statements, st) ==
    IF st.err # NoErr THEN [statements |-> <<>>, err |-> st.err]
    ELSE Parser_parse_loop(toks, st.cur, Append(statements, st.node))

\* the loop of parse
Parser_parse_loop(toks, cur, statements) ==
    IF ~Parser_is_at_end(toks, cur)
    THEN Parser_parse_statement(toks, statements, Parser_statement(toks, cur))
    ELSE [statements |-> statements, err |-> NoErr]

\* Parser(tokens).parse(): the statement list, or the ParseError raised
Parser_parse(toks) == Parser_parse_loop(toks, 0, <<>>)

\* run, up to the call of interpret: the tokens, the program and the error raised
Pipeline_parsed(toks, parsed) ==
    [tokens |-> toks, statements |-> parsed.statements, err |-> parsed.err]

Pipeline_lexed(lexed) ==
    IF lexed.err # NoErr THEN [tokens |-> <<>>, statements |-> <<>>, err |-> lexed.err]
    ELSE Pipeline_parsed(lexed.tokens, Parser_parse(lexed.tokens))

Pipeline(src) == Pipeline_lexed(Lexer_lex(src))

-----------------------------------------------------------------------------
(* interpreter.py: Environment.  scopes[i] is one Environment object; a    *)
(* parent of 0 is None.                                                    *)

Environment(parent) == [values |-> [x \in {} |-> NilV], parent |-> parent]

\* a define that writes the outermost scope instead of scope e
Environment_define_global(sc, e, name, value) ==
    [sc EXCEPT ![1].values = [x \in DOMAIN @ \cup {name} |->
                                 IF x = name THEN value ELSE @[x]]]

\* self.values[name] = value
Environment_define(sc, e, name, value) ==
    [sc EXCEPT ![e].values = [x \in DOMAIN @ \cup {name} |->
                                 IF x = name THEN value ELSE @[x]]]

UndefinedVariable(name) ==
    Exc("RuntimeErrorML", Loc(name.line, name.col)
                          \o "Undefined variable '" \o name.lexeme \o "'.")

RECURSIVE Environment_assign(_, _, _, _)

\* an assign that binds the name in the root scope when no scope binds it
Environment_assign_creating(sc, e, name, value) ==
    IF name.lexeme \in DOMAIN sc[e].values
    THEN [scopes |-> [sc EXCEPT ![e].values[name.lexeme] = value], err |-> NoErr]
    ELSE IF sc[e].parent # 0
    THEN Environment_assign(sc, sc[e].parent, name, value)
    ELSE [scopes |-> [sc EXCEPT ![e].values = [x \in DOMAIN @ \cup {name.lexeme} |->
                                 IF x = name.lexeme THEN value ELSE @[x]]],
          err |-> NoErr]

\* Environment.assign from scope e: the scopes after it and the error raised
Environment_assign(sc, e, name, value) ==
    IF name.lexeme \in DOMAIN sc[e].values
    THEN [scopes |-> [sc EXCEPT ![e].values[name.lexeme] = value], err |-> NoErr]
    ELSE IF sc[e].parent # 0
    THEN Environment_assign(sc, sc[e].parent, name, value)
    ELSE [scopes |-> sc, err |-> UndefinedVariable(name)]

\* Environment.get from scope e
RECURSIVE Environment_get(_, _, _)
Environment_get(sc, e, name) ==
    IF name.lexeme \in DOMAIN sc[e].values
    THEN Ok(sc[e].values[name.lexeme])
    ELSE IF sc[e].parent # 0
    THEN Environment_get(sc, sc[e].parent, name)
    ELSE [val |-> NilV, err |-> UndefinedVariable(name)]

-----------------------------------------------------------------------------
(* interpreter.py: Interpreter, the expressions.                           *)

Interpreter_is_truthy(value) == PyBool(value)

\* _check_number and _check_numbers: the error raised, NoErr when none is
Interpreter_check_number(op, value) ==
    IF ~IsNumber(value)
    THEN Exc("RuntimeErrorML", Loc(op.line, op.col) \o "Operand must be a number.")
    ELSE NoErr

Interpreter_check_numbers(op, left, right) ==
    IF ~IsNumber(left) \/ ~IsNumber(right)
    THEN Exc("RuntimeErrorML", Loc(op.line, op.col) \o "Operands must be numbers.")
    ELSE NoErr

\* what the operator gives on operands the check let through
Interpreter_checked(op, left, right, result) ==
    LET c == Interpreter_check_numbers(op, left, right)
    IN IF c # NoErr THEN [val |-> NilV, err |-> c] ELSE result

Interpreter_apply_binary(op, left, right) ==
    LET t == op.typ
    IN CASE t = "PLUS" -> PyAdd(left, right)
         [] t = "MINUS" -> Interpreter_checked(op, left, right, PySub(left, right))
         [] t = "STAR" -> Interpreter_checked(op, left, right, PyMul(left, right))
         [] t = "SLASH" -> Interpreter_checked(op, left, right, PyDiv(left, right))
         [] t = "EQUAL_EQUAL" -> Ok(BoolV(PyEq(left, right)))
         [] t = "BANG_EQUAL" -> Ok(BoolV(~PyEq(left, right)))
         [] t = "LESS" ->
              Interpreter_checked(op, left, right, Ok(BoolV(PyLt(left, right))))
         [] t = "LESS_EQUAL" ->
              Interpreter_checked(op, left, right, Ok(BoolV(~PyLt(right, left))))
         [] t = "GREATER" ->
              Interpreter_checked(op, left, right, Ok(BoolV(PyLt(right, left))))
         [] t = "GREATER_EQUAL" ->
              Interpreter_checked(op, left, right, Ok(BoolV(~PyLt(left, right))))
         [] OTHER -> Fail("RuntimeErrorML", "Invalid operator " \o op.lexeme)

Evaluated(val, sc) == [val |-> val, scopes |-> sc, err |-> NoErr]
Raised(e, sc) == [val |-> NilV, scopes |-> sc, err |-> e]

\* _eval in scope e: the value, the scopes after the assignments made on the
\* way, and the exception raised
RECURSIVE Interpreter_eval(_, _, _)
Interpreter_eval(expr, sc, e) ==
    CASE expr.t = "Literal" -> Evaluated(expr.value, sc)
      [] expr.t = "Variable" ->
           LET g == Environment_get(sc, e, expr.name)
           IN [val |-> g.val, scopes |-> sc, err |-> g.err]
      [] expr.t = "Assign" ->
           LET value == Interpreter_eval(expr.value, sc, e)
           IN IF value.err # NoErr THEN value
              ELSE LET a == Environment_assign(value.scopes, e, expr.name, value.val)
                   IN [val |-> value.val, scopes |-> a.scopes, err |-> a.err]
      [] expr.t = "Grouping" -> Interpreter_eval(expr.expr, sc, e)
      [] expr.t = "Unary" ->
           LET right == Interpreter_eval(expr.right, sc, e)
           IN IF right.err # NoErr THEN right
              ELSE IF expr.op.typ = "MINUS"
              THEN LET c == Interpreter_check_number(expr.op, right.val)
                   IN IF c # NoErr THEN Raised(c, right.scopes)
                      ELSE Evaluated(PyNeg(right.val), right.scopes)
              ELSE IF expr.op.typ = "BANG"
              THEN Evaluated(BoolV(~Interpreter_is_truthy(right.val)), right.scopes)
              ELSE Raised(Exc("RuntimeErrorML", "Unknown expression type: Unary"),
                          right.scopes)
      [] expr.t = "Binary" ->
           LET left == Interpreter_eval(expr.left, sc, e)
           IN IF left.err # NoErr THEN left
              ELSE LET right == Interpreter_eval(expr.right, left.scopes, e)
                   IN IF right.err # NoErr THEN right
                      ELSE LET r == Interpreter_apply_binary(expr.op, left.val, right.val)
                           IN [val |-> r.val, scopes |-> right.scopes, err |-> r.err]
      [] OTHER -> Raised(Exc("RuntimeErrorML", "Unknown expression type: " \o expr.t), sc)

-----------------------------------------------------------------------------
(* interpreter.py: Interpreter, the statements.  One step executes one     *)
(* statement, or leaves one loop.  kont holds the active calls:            *)
(*   [k |-> "interpret", stmts]  the loop of interpret, stmts still to run *)
(*   [k |-> "block", stmts, previous, entry]  the loop of _execute_block;  *)
(*        entry is the scopes on entry (history, read by no action)        *)
(*   [k |-> "execute", stmt]  an _execute call about to start              *)
(*   [k |-> "while", stmt]    the while loop of _execute, its body running *)

Top == kont[1]

\* a statement is about to be executed
HasNext ==
    /\ status = "running" /\ kont # <<>>
    /\ \/ Top.k = "execute"
       \/ Top.k \in {"interpret", "block"} /\ Top.stmts # <<>>

NextStmt == IF Top.k = "execute" THEN Top.stmt ELSE Head(Top.stmts)

\* the active calls once NextStmt has been taken
Rest ==
    IF Top.k = "execute" THEN Tail(kont)
    ELSE <<[Top EXCEPT !.stmts = Tail(@)]>> \o Tail(kont)

\* the Environment objects still reachable from Interpreter.env e
Collect(sc, e) == SubSeq(sc, 1, e)

\* an _execute_block that restores self.env after its loop, with no finally
Unwind_no_finally(frames, e) == e

\* what Interpreter.env is once an exception has passed through the active
\* calls: each _execute_block on the way runs its finally
RECURSIVE Unwind(_, _)
Unwind(frames, e) ==
    IF frames = <<>> THEN e
    ELSE Unwind(Tail(frames),
                IF Head(frames).k = "block" THEN Head(frames).previous ELSE e)

\* an exception raised while a statement runs leaves interpret
Raise(sc, e) ==
    LET restored == Unwind(kont, env)
    IN /\ status' = "raised"
       /\ err' = e
       /\ kont' = <<>>
       /\ env' = restored
       /\ scopes' = Collect(sc, restored)
       /\ UNCHANGED <<out, replVars>>

ExecExprStmt ==
    /\ HasNext /\ NextStmt.t = "ExprStmt"
    /\ LET r == Interpreter_eval(NextStmt.expr, scopes, env)
       IN IF r.err # NoErr THEN Raise(r.scopes, r.err)
          ELSE /\ scopes' = r.scopes
               /\ kont' = Rest
               /\ UNCHANGED <<env, status, err, out, replVars>>

ExecPrint ==
    /\ HasNext /\ NextStmt.t = "PrintStmt"
    /\ LET r == Interpreter_eval(NextStmt.expr, scopes, env)
       IN IF r.err # NoErr THEN Raise(r.scopes, r.err)
          ELSE /\ scopes' = r.scopes
               /\ out' = out \o PyStr(r.val) \o "\n"
               /\ kont' = Rest
               /\ UNCHANGED <<env, status, err, replVars>>

ExecLet ==
    /\ HasNext /\ NextStmt.t = "LetStmt"
    /\ LET r == Interpreter_eval(NextStmt.initializer, scopes, env)
       IN IF r.err # NoErr THEN Raise(r.scopes, r.err)
          ELSE /\ scopes' = Environment_define(r.scopes, env, NextStmt.name.lexeme, r.val)
               /\ kont' = Rest
               /\ UNCHANGED <<env, status, err, out, replVars>>

\* _execute_block(stmt.statements, Environment(self.env)), up to its loop
ExecBlock ==
    /\ HasNext /\ NextStmt.t = "Block"
    /\ scopes' = Append(scopes, Environment(env))
    /\ env' = Len(scopes) + 1
    /\ kont' = <<[k |-> "block", stmts |-> NextStmt.statements, previous |-> env,
                  entry |-> scopes]>> \o Rest
    /\ UNCHANGED <<status, err, out, replVars>>

\* the finally of _execute_block, the loop having ended
BlockExit ==
    /\ status = "running" /\ kont # <<>>
    /\ Top.k = "block" /\ Top.stmts = <<>>
    /\ env' = Top.previous
    /\ scopes' = Collect(scopes, Top.previous)
    /\ kont' = Tail(kont)
    /\ UNCHANGED <<status, err, out, replVars>>

ExecIf ==
    /\ HasNext /\ NextStmt.t = "IfStmt"
    /\ LET r == Interpreter_eval(NextStmt.condition, scopes, env)
       IN IF r.err # NoErr THEN Raise(r.scopes, r.err)
          ELSE /\ scopes' = r.scopes
               /\ kont' = IF Interpreter_is_truthy(r.val)
                          THEN <<[k |-> "execute", stmt |-> NextStmt.then_branch]>> \o Rest
                          ELSE IF NextStmt.else_branch.t # "None"
                          THEN <<[k |-> "execute", stmt |-> NextStmt.else_branch]>> \o Rest
                          ELSE Rest
               /\ UNCHANGED <<env, status, err, out, replVars>>

\* the first test of a while statement
ExecWhile ==
    /\ HasNext /\ NextStmt.t = "WhileStmt"
    /\ LET r == Interpreter_eval(NextStmt.condition, scopes, env)
       IN IF r.err # NoErr THEN Raise(r.scopes, r.err)
          ELSE /\ scopes' = r.scopes
               /\ kont' = IF Interpreter_is_truthy(r.val)
                          THEN <<[k |-> "execute", stmt |-> NextStmt.body],
                                 [k |-> "while", stmt |-> NextStmt]>> \o Rest
                          ELSE Rest
               /\ UNCHANGED <<env, status, err, out, replVars>>

\* the test of a while statement after its body has run
WhileAgain ==
    /\ status = "running" /\ kont # <<>>
    /\ Top.k = "while"
    /\ LET r == Interpreter_eval(Top.stmt.condition, scopes, env)
       IN IF r.err # NoErr THEN Raise(r.scopes, r.err)
          ELSE /\ scopes' = r.scopes
               /\ kont' = IF Interpreter_is_truthy(r.val)
                          THEN <<[k |-> "execute", stmt |-> Top.stmt.body]>> \o kont
                          ELSE Tail(kont)
               /\ UNCHANGED <<env, status, err, out, replVars>>

\* interpret returns: its loop has ended
InterpretReturn ==
    /\ status = "running" /\ kont # <<>>
    /\ Top.k = "interpret" /\ Top.stmts = <<>>
    /\ status' = "returned"
    /\ kont' = <<>>
    /\ UNCHANGED <<scopes, env, err, out, replVars>>

-----------------------------------------------------------------------------
(* main.py: run and repl.                                                  *)

Whitespace == {" ", "\t", "\n", "\r"}

\* str.strip()
RECURSIVE Strip(_)
Strip(text) ==
    IF text = "" THEN ""
    ELSE IF SubSeq(text, 1, 1) \in Whitespace THEN Strip(SubSeq(text, 2, Len(text)))
    ELSE IF SubSeq(text, Len(text), Len(text)) \in Whitespace
    THEN Strip(SubSeq(text, 1, Len(text) - 1))
    ELSE text

\* str.count(ch)
RECURSIVE Count(_, _)
Count(text, ch) ==
    IF text = "" THEN 0
    ELSE (IF SubSeq(text, 1, 1) = ch THEN 1 ELSE 0) + Count(SubSeq(text, 2, Len(text)), ch)

\* the subclasses of MiniLangError (ml_ast.py)
MiniLangError == {"LexError", "ParseError", "RuntimeErrorML"}

\* the prompt input() writes
Prompt == IF depth = 0 THEN "ml> " ELSE "... "

\* the lines a user may type
Lines ==
    { "", "exit", "quit", "{", "}", "@", "// }",
      "let x = 1;",
      "x = x + 1;",
      "print x;",
      "print z;",
      "print (x = 5);",
      "{ let x = 2; print x; }",
      "{ let z = 3; x = 9; print z; }",
      "{ { y = 1; } }",
      "{ let a = 1; { let b = a; print c; } }",
      "if (0) print \"t\"; else print \"f\";",
      "if (x == 1) x = 2;",
      "while (x < 3) x = x + 1;",
      "while (x < 2) { let x = 0; x = 7; }",
      "print !0;",
      "print 1 / 0;",
      "print 3 / 2;",
      "print 1 + \"a\";",
      "print true - 1;",
      "print -true;",
      "print 1 == 1;",
      "print null;",
      "print \"}\";",
      "{ print \"a",
      "b\"; }",
      "1 = ;",
      "(x) = 1;" }

\* except MiniLangError as e: print(e); buffer = ""; depth = 0
Caught(e, shown) ==
    /\ out' = shown \o e.msg \o "\n"
    /\ buffer' = ""
    /\ depth' = 0
    /\ err' = e
    /\ session' = "reading"

\* run(buffer, interp) up to the call of interp.interpret; piped is Pipeline(buffer1)
ReplRun(shown, buffer1, depth1, piped) ==
    /\ source' = buffer1
    /\ tokens' = piped.tokens
    /\ program' = piped.statements
    /\ IF piped.err # NoErr
       THEN /\ Caught(piped.err, shown)
            /\ UNCHANGED interpVars
       ELSE /\ status' = "running"
            /\ kont' = <<[k |-> "interpret", stmts |-> piped.statements]>>
            /\ session' = "running"
            /\ buffer' = buffer1
            /\ depth' = depth1
            /\ out' = shown
            /\ err' = NoErr
            /\ UNCHANGED <<scopes, env>>

\* one turn of the loop of repl, up to the call of interp.interpret in run
ReplInput(line) ==
    /\ session = "reading" /\ ninputs < MaxInputs
    /\ ninputs' = ninputs + 1
    /\ LET shown == out \o Prompt
           buffer1 == buffer \o line \o "\n"
           depth1 == depth + Count(line, "{") - Count(line, "}")
       IN IF depth = 0 /\ Strip(line) \in {"exit", "quit"}
          THEN /\ session' = "ended"
               /\ out' = shown
               /\ source' = "" /\ tokens' = <<>> /\ program' = <<>>
               /\ UNCHANGED <<buffer, depth, err, interpVars>>
          ELSE IF depth1 > 0
          THEN /\ buffer' = buffer1
               /\ depth' = depth1
               /\ out' = shown
               /\ source' = "" /\ tokens' = <<>> /\ program' = <<>>
               /\ UNCHANGED <<session, err, interpVars>>
          ELSE IF Strip(buffer1) = ""
          THEN /\ buffer' = ""
               /\ depth' = depth1
               /\ out' = shown
               /\ source' = "" /\ tokens' = <<>> /\ program' = <<>>
               /\ UNCHANGED <<session, err, interpVars>>
          ELSE ReplRun(shown, buffer1, depth1, Pipeline(buffer1))

\* run returned: buffer = "" and the loop goes round
ReplRunReturned ==
    /\ session = "running" /\ status = "returned"
    /\ buffer' = ""
    /\ session' = "reading"
    /\ status' = "idle"
    /\ UNCHANGED <<scopes, env, kont, err, out, depth, ninputs, source, tokens, program>>

\* interpret raised: a MiniLangError is caught, any other exception leaves repl
ReplRunRaised ==
    /\ session = "running" /\ status = "raised"
    /\ status' = "idle"
    /\ IF err.kind \in MiniLangError
       THEN Caught(err, out)
       ELSE /\ session' = "crashed"
            /\ UNCHANGED <<out, buffer, depth, err>>
    /\ UNCHANGED <<scopes, env, kont, ninputs, source, tokens, program>>

\* input() raises EOFError: break
ReplEOF ==
    /\ session = "reading" /\ ninputs < MaxInputs
    /\ ninputs' = ninputs + 1
    /\ out' = out \o Prompt
    /\ session' = "ended"
    /\ UNCHANGED <<interpVars, err, buffer, depth, source, tokens, program>>

\* input() raises KeyboardInterrupt
ReplInterrupt ==
    /\ session = "reading" /\ ninputs < MaxInputs
    /\ ninputs' = ninputs + 1
    /\ out' = out \o Prompt \o "\n(use 'exit' to quit)\n"
    /\ buffer' = ""
    /\ depth' = 0
    /\ UNCHANGED <<interpVars, err, session, source, tokens, program>>

\* repl() has made its Interpreter and printed its banner
Init ==
    /\ scopes = <<Environment(0)>>
    /\ env = 1
    /\ kont = <<>>
    /\ status = "idle"
    /\ err = NoErr
    /\ out = "MiniLang REPL. Type 'exit' to quit.\n"
    /\ buffer = ""
    /\ depth = 0
    /\ session = "reading"
    /\ ninputs = 0
    /\ source = ""
    /\ tokens = <<>>
    /\ program = <<>>

Next ==
    \/ \E line \in Lines : ReplInput(line)
    \/ ReplRunReturned
    \/ ReplRunRaised
    \/ ReplEOF
    \/ ReplInterrupt
    \/ ExecExprStmt
    \/ ExecPrint
    \/ ExecLet
    \/ ExecBlock
    \/ BlockExit
    \/ ExecIf
    \/ ExecWhile
    \/ WhileAgain
    \/ InterpretReturn

Spec == Init /\ [][Next]_vars

-----------------------------------------------------------------------------
(* The claims.                                                             *)

\* a statement whose expression is evaluated as a whole by the step
EvalStep == HasNext /\ NextStmt.t \in {"ExprStmt", "PrintStmt"}

\* C1: truthiness as `if`, `while` and unary `!` use it: a value is falsy iff
\* it is nil or the boolean false; zero and the empty string are truthy.  So
\* an `if` whose condition is not nil or false runs its then-branch, a `while`
\* enters its body, and `!` of such a value prints as false.
Falsy(v) == v.k = "nil" \/ (v.k = "bool" /\ ~v.b)

C1_If ==
    (HasNext /\ NextStmt.t = "IfStmt") =>
        LET r == Interpreter_eval(NextStmt.condition, scopes, env)
        IN r.err = NoErr =>
             kont' = IF ~Falsy(r.val)
                     THEN <<[k |-> "execute", stmt |-> NextStmt.then_branch]>> \o Rest
                     ELSE IF NextStmt.else_branch.t # "None"
                     THEN <<[k |-> "execute", stmt |-> NextStmt.else_branch]>> \o Rest
                     ELSE Rest

C1_While ==
    (HasNext /\ NextStmt.t = "WhileStmt") =>
        LET r == Interpreter_eval(NextStmt.condition, scopes, env)
        IN r.err = NoErr =>
             kont' = IF ~Falsy(r.val)
                     THEN <<[k |-> "execute", stmt |-> NextStmt.body],
                            [k |-> "while", stmt |-> NextStmt]>> \o Rest
                     ELSE Rest

C1_Bang ==
    (HasNext /\ NextStmt.t = "PrintStmt" /\ NextStmt.expr.t = "Unary"
       /\ NextStmt.expr.op.typ = "BANG") =>
        LET r == Interpreter_eval(NextStmt.expr.right, scopes, env)
        IN r.err = NoErr => out' = out \o PyStr(BoolV(Falsy(r.val))) \o "\n"

C1_Truthiness == [][C1_If /\ C1_While /\ C1_Bang]_vars

\* C2: block scopes are restored on every exit path: whenever interpret is
\* not running (it has returned or raised, whatever programs ran before),
\* the current scope is the root scope, the one current before the call.
C2_ScopesRestored ==
    status # "running" => env = 1 /\ scopes[env].parent = 0

\* an error raised two blocks deep in a program has left interpret
C2_Witness ==
    /\ status = "raised"
    /\ source = "{ let a = 1; { let b = a; print c; } }\n"
    /\ err = Exc("RuntimeErrorML", "[line 1:33] Undefined variable 'c'.")
    /\ env = 1

\* the names bound in the scopes sc[i], i in idx
BoundIn(sc, idx) == UNION {DOMAIN sc[i].values : i \in idx}

IdentToken(name) == Token("IDENT", name, NilV, 1, 1)

\* the block calls that end in this step: the innermost when its loop ended,
\* every one when an exception leaves interpret
Leaving ==
    IF status = "running" /\ status' = "raised"
    THEN {i \in 1..Len(kont) : kont[i].k = "block"}
    ELSE IF status = "running" /\ kont # <<>> /\ Top.k = "block" /\ Top.stmts = <<>>
    THEN {1}
    ELSE {}

\* C3: a `let` inside a block does not leak outside it: a let executed in a
\* block writes only the innermost scope; when a block exits (normally or by
\* an error) every enclosing scope binds exactly the names it bound on block
\* entry (the scopes of blocks that exit with it are gone), and a name
\* declared only inside the block is undefined afterwards.
C3_Let ==
    (HasNext /\ NextStmt.t = "LetStmt" /\ env > 1) =>
        LET r == Interpreter_eval(NextStmt.initializer, scopes, env)
        IN r.err = NoErr =>
             /\ Len(scopes') = Len(scopes)
             /\ \A i \in 1..Len(scopes) : i # env => scopes'[i] = r.scopes[i]
             /\ NextStmt.name.lexeme \in DOMAIN scopes'[env].values
             /\ scopes'[env].values[NextStmt.name.lexeme] = r.val

C3_Exit ==
    \A f \in Leaving :
        LET entry == kont[f].entry
            inner == BoundIn(scopes, (Len(entry) + 1)..Len(scopes))
                       \ BoundIn(entry, 1..Len(entry))
            outermost == \A g \in Leaving : Len(entry) <= Len(kont[g].entry)
        IN /\ outermost => Len(scopes') >= Len(entry)
           /\ \A i \in 1..Len(entry) :
                  i <= Len(scopes') =>
                      DOMAIN scopes'[i].values = DOMAIN entry[i].values
           /\ env' \in 1..Len(scopes')
           /\ \A name \in inner :
                  Environment_get(scopes', env', IdentToken(name)).err
                      = UndefinedVariable(IdentToken(name))

C3_LetDoesNotLeak == [][C3_Let /\ C3_Exit]_vars

\* a block that shadowed x with a let has run and returned: the outer x
\* still holds 1 and the root scope binds x alone
C3_Witness ==
    /\ status = "returned"
    /\ source = "{ let x = 2; print x; }\n"
    /\ DOMAIN scopes[1].values = {"x"}
    /\ scopes[1].values["x"] = IntV(1)

\* the scopes on the chain from scope e outwards
RECURSIVE Chain(_, _)
Chain(sc, e) == IF e = 0 THEN {} ELSE {e} \cup Chain(sc, sc[e].parent)

\* the number of parent links from scope e to scope i of its chain
RECURSIVE Distance(_, _, _)
Distance(sc, e, i) == IF e = i THEN 0 ELSE 1 + Distance(sc, sc[e].parent, i)

\* C4: assignment targets the nearest existing binding and never creates
\* one: `x = e` evaluates e, then overwrites x in the innermost scope of the
\* chain that binds x, leaves every other binding unchanged, and gives e's
\* value; when no scope of the chain binds x it raises Undefined variable
\* and no scope gains or changes a binding.
C4_Assign ==
    (EvalStep /\ NextStmt.expr.t = "Assign") =>
        LET a == NextStmt.expr
            x == a.name.lexeme
            r == Interpreter_eval(a.value, scopes, env)
            binders == {i \in Chain(r.scopes, env) : x \in DOMAIN r.scopes[i].values}
            nearest == CHOOSE i \in binders :
                          \A j \in binders :
                              Distance(r.scopes, env, i) <= Distance(r.scopes, env, j)
        IN r.err = NoErr =>
             IF binders # {}
             THEN /\ status' = "running"
                  /\ scopes' = [r.scopes EXCEPT ![nearest].values[x] = r.val]
                  /\ NextStmt.t = "PrintStmt" => out' = out \o PyStr(r.val) \o "\n"
             ELSE /\ status' = "raised"
                  /\ err' = UndefinedVariable(a.name)
                  /\ \A i \in 1..Len(scopes') : scopes'[i] = r.scopes[i]
                  /\ out' = out

C5_OnlyRuntimeError == status = "raised" => err.kind = "RuntimeErrorML"

NotANumber(v) == v.k \in {"str", "bool", "nil"}

\* C6: arithmetic and ordering operators accept only values of kind number:
\* binary - * / < <= > >= on a string, boolean or nil operand raises
\* RuntimeError `Operands must be numbers`, and unary - raises RuntimeError
\* `Operand must be a number`; no value is produced.
C6_Binary ==
    (EvalStep /\ NextStmt.expr.t = "Binary"
       /\ NextStmt.expr.op.typ \in {"MINUS", "STAR", "SLASH", "LESS", "LESS_EQUAL",
                                    "GREATER", "GREATER_EQUAL"}) =>
        LET b == NextStmt.expr
            left == Interpreter_eval(b.left, scopes, env)
            right == Interpreter_eval(b.right, left.scopes, env)
        IN (left.err = NoErr /\ right.err = NoErr
              /\ (NotANumber(left.val) \/ NotANumber(right.val))) =>
             /\ status' = "raised"
             /\ err' = Exc("RuntimeErrorML",
                           Loc(b.op.line, b.op.col) \o "Operands must be numbers.")
             /\ out' = out

C6_Unary ==
    (EvalStep /\ NextStmt.expr.t = "Unary" /\ NextStmt.expr.op.typ = "MINUS") =>
        LET u == NextStmt.expr
            right == Interpreter_eval(u.right, scopes, env)
        IN (right.err = NoErr /\ NotANumber(right.val)) =>
             /\ status' = "raised"
             /\ err' = Exc("RuntimeErrorML",
                           Loc(u.op.line, u.op.col) \o "Operand must be a number.")
             /\ out' = out

C6_NumbersOnly == [][C6_Binary /\ C6_Unary]_vars

\* the spelling the lexer's keyword table gives a token type
Spelling(typ) == CHOOSE w \in DOMAIN KEYWORDS : KEYWORDS[w] = typ

\* the rendering the language asks of print
Rendered(v) ==
    CASE v.k = "bool" -> IF v.b THEN Spelling("TRUE") ELSE Spelling("FALSE")
      [] v.k = "nil" -> Spelling("NULL")
      [] v.k = "int" -> IntStr(v.n)
      [] v.k = "str" -> v.s
      [] v.k = "float" -> PyStr(v)

\* C7: print renders each value in the language's own spelling: a boolean
\* as true or false, nil with the spelling of the lexer's keyword (null), an
\* integer without .0, a string as its characters; each followed by one
\* line terminator.  This holds for values computed by operators too.
C7_Print ==
    (HasNext /\ NextStmt.t = "PrintStmt") =>
        LET r == Interpreter_eval(NextStmt.expr, scopes, env)
        IN r.err = NoErr => out' = out \o Rendered(r.val) \o "\n"

C7_PrintSpelling == [][C7_Print]_vars

\* C8: no program error ends the interactive session: when a submitted
\* program fails at lexing, parsing or evaluation the driver prints the
\* message, resets the buffer to empty and the depth counter to zero and
\* goes on reading; the session ends only on a top-level exit/quit line or
\* on end of input, both of which happen at input().
C8_Step ==
    /\ (session = "running" /\ status = "raised") =>
           /\ out' = out \o err.msg \o "\n"
           /\ buffer' = "" /\ depth' = 0
           /\ session' = "reading"
    /\ (session = "reading" /\ err' # NoErr /\ err' # err) =>
           /\ buffer' = "" /\ depth' = 0
           /\ session' = "reading"
    /\ session' \notin {"reading", "running"} =>
           session = session' \/ (session = "reading" /\ session' = "ended")

C8_SessionSurvives == [][C8_Step]_vars

\* the braces of a text: "{" counted up, "}" counted down
Balance(text) == Count(text, "{") - Count(text, "}")

\* C9: interactive hand-off happens only at brace balance zero and returns
\* the session to top level: the buffer is handed to the pipeline only when
\* its brace balance is exactly zero and it is non-blank, and whenever the
\* driver is at input() with an empty buffer the depth counter is zero (so
\* the prompt is `ml> ` and exit/quit end the session).
C9_Step ==
    /\ (session = "reading" /\ source' # "") =>
           Balance(source') = 0 /\ Strip(source') # ""
    /\ (session' = "reading" /\ buffer' = "") =>
           depth' = 0 /\ (IF depth' = 0 THEN "ml> " ELSE "... ") = "ml> "

C9_HandOffAtTopLevel == [][C9_Step]_vars

\* C10: invalid assignment targets are rejected at the "=": when what the
\* parser has parsed before an "=" is not a Variable, the parse fails with
\* ParseError `Invalid assignment target` located at that "=", whatever
\* follows it.  Stated for the first statement of a program handed to the
\* parser: its left-hand side is what _equality parses from the first token.
C10_AtEquals ==
    tokens # <<>> =>
        LET lhs == Parser_equality(tokens, 0)
            equals == Parser_peek(tokens, lhs.cur)
        IN (lhs.err = NoErr /\ lhs.node.t # "Variable"
              /\ Parser_match(tokens, lhs.cur, {"EQUAL"})) =>
             err = Exc("ParseError",
                       Loc(equals.line, equals.col) \o "Invalid assignment target.")

\* the 1-based line and column of the character at index p (from 1) of a
\* text: the line terminators before it counted, and its distance from the
\* last of them
LineOf(text, p) == 1 + Count(SubSeq(text, 1, p - 1), "\n")

RECURSIVE ColumnOf(_, _)
ColumnOf(text, p) ==
    IF p = 1 \/ SubSeq(text, p - 1, p - 1) = "\n" THEN 1
    ELSE 1 + ColumnOf(text, p - 1)

\* the lexeme of token t starts at index p of the text, and t's line and
\* column name that character
StartsAt(text, t, p) ==
    /\ SubSeq(text, p, p + Len(t.lexeme) - 1) = t.lexeme
    /\ LineOf(text, p) = t.line
    /\ ColumnOf(text, p) = t.col

\* C11: token provenance: for every source on which Lexer.lex succeeds,
\* every non-EOF token has a non-empty lexeme that is a substring of the
\* source, and its (line, column) names a character position that exists in
\* the source: the 1-based line and column where the lexeme starts.  String
\* literals whose text spans several lines are included.
C11_TokenProvenance ==
    \A i \in 1..Len(tokens) :
        tokens[i].typ # "EOF" =>
            /\ Len(tokens[i].lexeme) > 0
            /\ \E p \in 1..(Len(source) - Len(tokens[i].lexeme) + 1) :
                   StartsAt(source, tokens[i], p)

=============================================================================
